---- MODULE Spec2Model ----
(***************************************************************************)
(* Wild Vision: the two-layer detection verifier (utils/verification.py),  *)
(* the detector helpers it uses (utils/yolo_detector.py) and the snapshot  *)
(* directory it writes to.                                                 *)
(*                                                                         *)
(* Units.  Confidences are integers in thousandths (0.50 is 500), raw box  *)
(* coordinates are integers in tenths of a pixel (so that int() truncates),*)
(* the clock counts milliseconds, the resolution of the snapshot file name.*)
(*                                                                         *)
(* Python's None is the empty tuple.  An f-string is the tuple of its      *)
(* literal and interpolated segments; a plain string literal used where an *)
(* f-string may also appear (rejection_reason) is a one-segment tuple.     *)
(*                                                                         *)
(* Environment.  cv2.imwrite either writes the file, returns False without *)
(* writing, or raises before writing; cv2.imread returns None for a        *)
(* missing file and may return None for an existing one; Path.unlink of an *)
(* existing snapshot succeeds; an inference of the loaded model takes more *)
(* than one millisecond.                                                   *)
(***************************************************************************)
EXTENDS Integers, Sequences, FiniteSets, TLC

\* ------------------------------------------------------------- bounds
MaxTime  == 2      \* the clock runs over 0..MaxTime
MaxBoxes == 2      \* raw boxes the model reports for one image
MaxLen   == 3      \* length of the lists given to the pure helpers
MaxDeletes == 3    \* direct delete_snapshot calls in one behaviour
MaxClock == 2      \* seconds the frame source is observed for
MaxStarts == 2     \* start() calls on one frame source
MaxFrames == 11    \* frames one frame source reads successfully
MaxLoadCalls == 2  \* load_model() calls of one thread
MaxAlertClock == 5 \* seconds the alert service is observed for
MaxAlerts == 2     \* alert e-mails dispatched in one behaviour
MaxLoopFrames == 4 \* frames the live page reads

\* ------------------------------------------------------------- config.py
LAYER1_CONFIDENCE == 500
LAYER2_CONFIDENCE == 400
AUTO_SNAPSHOT_THRESHOLD == 750
ALERT_COOLDOWN_SECONDS == 5
PROCESS_EVERY_N_FRAMES == 2

\* webcam_page.py
SNAPSHOT_COOLDOWN == 5

CLASS_NAMES == (0 :> "Bear") @@ (1 :> "Elephant") @@ (2 :> "Leopard") @@ (3 :> "Tiger")

None == <<>>

\* ------------------------------------------------------------- universe
Sessions == {1, 2}
\* the sessions that call the verifier when calls do not overlap
Callers  == {1}

\* What the model reports for an image before thresholding: class id,
\* confidence, xyxy in tenths of a pixel.  Two species at a confidence above
\* both layer thresholds, one of them also between the two thresholds.
RawBoxes ==
    { [cls |-> 0, conf |-> 600, xyxy |-> <<205, 207, 613, 518>>],
      [cls |-> 3, conf |-> 600, xyxy |-> <<205, 207, 613, 518>>],
      [cls |-> 0, conf |-> 450, xyxy |-> <<101, 102, 509, 408>>] }

SeqsUpTo(S, n) == UNION { [1..k -> S] : k \in 0..n }

BoxLists == SeqsUpTo(RawBoxes, MaxBoxes)

\* An image: where its pixels come from, and what the model sees in it.
MemoryImages == { [src |-> "memory", boxes |-> b] : b \in BoxLists }
DiskImages   == { [src |-> "disk",   boxes |-> b] : b \in BoxLists }

\* ------------------------------------------------------------- detector
\* model.predict(image, conf=conf_threshold): the boxes at or above the threshold
predict(image, conf_threshold) ==
    LET Keep(b) == b.conf >= conf_threshold
    IN  SelectSeq(image.boxes, Keep)

\* config.CLASS_NAMES.get(class_id, f"Class_{class_id}")
ClassNameOf(class_id) ==
    IF class_id \in DOMAIN CLASS_NAMES THEN CLASS_NAMES[class_id]
    ELSE "Class_" \o ToString(class_id)

\* one parsed box: int() of each coordinate truncates
ParseBox(box) ==
    [ class_id   |-> box.cls,
      class_name |-> ClassNameOf(box.cls),
      confidence |-> box.conf,
      bbox       |-> << box.xyxy[1] \div 10, box.xyxy[2] \div 10,
                        box.xyxy[3] \div 10, box.xyxy[4] \div 10 >> ]

\* detect_objects(image, conf_threshold); m is what load_model() returned,
\* raises tells whether inference raised
detect_objects(m, image, conf_threshold, raises) ==
    IF m = None THEN <<>>
    ELSE IF raises THEN <<>>
    ELSE LET boxes == predict(image, conf_threshold)
         IN  [i \in 1..Len(boxes) |-> ParseBox(boxes[i])]

RECURSIVE MaxFrom_last(_, _, _)
\* a scan that lets a later element of equal confidence replace the best
MaxFrom_last(detections, i, best) ==
    IF i > Len(detections) THEN best
    ELSE MaxFrom_last(detections, i + 1,
                      IF detections[i].confidence >= best.confidence
                      THEN detections[i] ELSE best)

RECURSIVE MaxFrom(_, _, _)
\* max(detections, key=confidence) scanning from index i with best so far
MaxFrom(detections, i, best) ==
    IF i > Len(detections) THEN best
    ELSE MaxFrom(detections, i + 1,
                 IF detections[i].confidence > best.confidence
                 THEN detections[i] ELSE best)

get_highest_confidence_detection(detections) ==
    IF detections = <<>> THEN None
    ELSE MaxFrom(detections, 2, detections[1])

\* a gate that needs the confidence to exceed the threshold
should_trigger_snapshot_strict(detections) ==
    IF detections = <<>> THEN FALSE
    ELSE LET best == get_highest_confidence_detection(detections)
         IN  best.confidence > AUTO_SNAPSHOT_THRESHOLD

should_trigger_snapshot(detections) ==
    IF detections = <<>> THEN FALSE
    ELSE LET best == get_highest_confidence_detection(detections)
         IN  best.confidence >= AUTO_SNAPSHOT_THRESHOLD

\* ------------------------------------------------------------- snapshot store
\* a file name without the timestamp
SnapshotPath_undated(time, detection, source) ==
    [ timestamp  |-> 0,
      species    |-> detection.class_name,
      confidence |-> detection.confidence \div 10,
      source     |-> source ]

\* the path save_snapshot builds: millisecond timestamp, species,
\* int(confidence * 100), source tag
SnapshotPath(time, detection, source) ==
    [ timestamp  |-> time,
      species    |-> detection.class_name,
      confidence |-> detection.confidence \div 10,
      source     |-> source ]

\* a save whose image write leaves a file behind when it raises
save_snapshot_partial(files, time, image, detection, source, out) ==
    LET filepath == SnapshotPath(time, detection, source)
    IN  CASE out = "written" -> [files |-> files \cup {filepath}, ret |-> filepath]
          [] out = "false"   -> [files |-> files,                  ret |-> filepath]
          [] out = "raised"  -> [files |-> files \cup {filepath}, ret |-> None]

\* save_snapshot(image, detection, source) at clock value time on the
\* directory content files; out is what cv2.imwrite does
save_snapshot(files, time, image, detection, source, out) ==
    LET filepath == SnapshotPath(time, detection, source)
    IN  CASE out = "written" -> [files |-> files \cup {filepath}, ret |-> filepath]
          [] out = "false"   -> [files |-> files,                  ret |-> filepath]
          [] out = "raised"  -> [files |-> files,                  ret |-> None]

ImwriteOutcomes == {"written", "false", "raised"}

\* a delete that tests for the file but does not unlink it
delete_snapshot_keep(files, filepath) ==
    IF filepath \in files
    THEN [files |-> files, ret |-> TRUE]
    ELSE [files |-> files, ret |-> FALSE]

\* a delete that unlinks with missing_ok and reports success either way
delete_snapshot_always(files, filepath) ==
    [files |-> files \ {filepath}, ret |-> TRUE]

\* delete_snapshot(filepath) on the directory content files
delete_snapshot(files, filepath) ==
    IF filepath \in files
    THEN [files |-> files \ {filepath}, ret |-> TRUE]
    ELSE [files |-> files,              ret |-> FALSE]

\* a read that hands back an image that never went through the file
imread_inmemory(files, filepath) ==
    IF filepath \in files THEN MemoryImages \cup {None} ELSE {None}

\* what cv2.imread(filepath) can return
imread(files, filepath) ==
    IF filepath \in files THEN DiskImages \cup {None} ELSE {None}

\* ------------------------------------------------------------- state
VARIABLES
    now,                \* wall clock, milliseconds
    disk,               \* the files present in config.SNAPSHOT_DIR
    model_cache,        \* st.cache_resource of load_model: <<>> or <<value>>
    pc,                 \* per session: position inside verify_detection_2layer
    image,              \* per session: the argument of the call
    t0,                 \* per session: clock value when Layer-1 inference began
    layer1_detections,  \* per session: local of the call
    best_layer1,        \* per session: local of the call
    snapshot_path,      \* per session: local of the call
    snapshot_image,     \* per session: local of the call
    result,             \* per session: what the last finished call returned
    oplog,              \* per session: the library calls of the current/last attempt
    entry_files,        \* per session: directory content when the call began
    retained,           \* snapshot_path of every verified result returned so far
    written,            \* every path cv2.imwrite has written a file to
    pure_arg,           \* the detection list given to the pure helpers
    pure_called,        \* which pure helpers have been applied to pure_arg
    pure_best,          \* what get_highest_confidence_detection(pure_arg) returned
    pure_trigger,       \* what should_trigger_snapshot(pure_arg) returned
    det_image,          \* the image given to detect_objects called on its own
    det_ret,            \* what that call returned, once it has
    store_hist,         \* the direct delete_snapshot calls made so far
    clock,              \* time.time(), whole seconds
    processor,          \* the WebcamProcessor object and its fields
    handles,            \* the cv2.VideoCapture objects created so far
    since_sample,       \* frames read since last_time was last set
    fs_last,            \* the last call on the frame source, with the state before it
    lm_pc,              \* where each thread is in its load_model() call
    lm_lock,            \* the thread computing the value to cache, if any
    lm_val,             \* what the body of load_model returned to each thread
    lm_ret,             \* what load_model() last returned to each thread
    lm_calls,           \* load_model() calls each thread has made
    lm_missed,          \* the threads whose first cache lookup missed
    n_loads,            \* how many times the body of load_model has run
    alerts_collection,  \* None, or last_alert_time per species of the user
    send_threads,       \* the send_thread threads still sending
    alert_log,          \* the alert e-mails dispatched: species and time
    alert_ret,          \* what send_alert_if_ready last returned
    loop_pc,            \* where the page script is in the video loop
    webcam_running,     \* st.session_state['webcam_running']
    ui_enable_detection,\* the "Enable Detection" checkbox
    frame_skip_counter, \* frames read in this run of the loop
    last_snapshot_time, \* st.session_state['last_snapshot_time']
    loop_frame,         \* the frame of this iteration
    shown,              \* processed_frame and detections of this iteration
    routed,             \* this iteration called process_frame
    attempts,           \* the verify_detection_2layer calls the loop made
    detections_db       \* the documents save_detection inserted

verifierVars == << now, disk, model_cache, pc, image, t0, layer1_detections,
                   best_layer1, snapshot_path, snapshot_image, result, oplog,
                   entry_files, retained, written >>

pureVars == << pure_arg, pure_called, pure_best, pure_trigger, det_image, det_ret >>

storeVars == << store_hist >>

frameVars == << clock, processor, handles, since_sample, fs_last >>

loadVars == << lm_pc, lm_lock, lm_val, lm_ret, lm_calls, lm_missed, n_loads >>

alertVars == << alerts_collection, send_threads, alert_log, alert_ret >>

loopVars == << loop_pc, webcam_running, ui_enable_detection, frame_skip_counter,
              last_snapshot_time, loop_frame, shown, routed, attempts,
              detections_db >>

vars == << verifierVars, pureVars, storeVars, frameVars, loadVars, alertVars,
           loopVars >>

\* the object load_model returns on success
YOLO == [names |-> CLASS_NAMES]

InitVerifier ==
    /\ now = 0
    /\ disk = {}
    /\ model_cache = <<>>
    /\ pc = [s \in Sessions |-> "idle"]
    /\ image = [s \in Sessions |-> None]
    /\ t0 = [s \in Sessions |-> 0]
    /\ layer1_detections = [s \in Sessions |-> <<>>]
    /\ best_layer1 = [s \in Sessions |-> None]
    /\ snapshot_path = [s \in Sessions |-> None]
    /\ snapshot_image = [s \in Sessions |-> None]
    /\ result = [s \in Sessions |-> None]
    /\ oplog = [s \in Sessions |-> <<>>]
    /\ entry_files = [s \in Sessions |-> {}]
    /\ retained = {}
    /\ written = {}

InitPure ==
    /\ pure_arg = <<>>
    /\ pure_called = {}
    /\ pure_best = None
    /\ pure_trigger = FALSE
    /\ det_image = None
    /\ det_ret = None

InitStore == store_hist = <<>>

\* ------------------------------------------------------------- frame source
\* the process starts long after the epoch of time.time()
StartTime == 2 * SNAPSHOT_COOLDOWN

LocalCamera == [int |-> 0]
IPWebcam    == [str |-> "http://192.168.1.100:8080/video"]

\* isinstance(camera_index, int)
IsInt(camera_index) == "int" \in DOMAIN camera_index

\* the frames a camera delivers: what the model sees in them, and whether
\* they are larger than WEBCAM_WIDTH x WEBCAM_HEIGHT
StrongBox == [cls |-> 0, conf |-> 800, xyxy |-> <<205, 207, 613, 518>>]
WeakBox   == [cls |-> 0, conf |-> 600, xyxy |-> <<205, 207, 613, 518>>]

CameraFrame(boxes, large) ==
    [src |-> "memory", boxes |-> boxes, large |-> large, drawn |-> <<>>]

CameraFrames ==
    { CameraFrame(<<>>, FALSE), CameraFrame(<<WeakBox>>, FALSE),
      CameraFrame(<<StrongBox>>, TRUE) }

\* WebcamProcessor.__init__(camera_index) at time t; m is what load_model() returned
NewProcessor(camera_index, m, t) ==
    [ camera_index |-> camera_index,
      cap          |-> None,
      running      |-> FALSE,
      fps          |-> 0,
      last_time    |-> t,
      frame_count  |-> 0,
      model        |-> m ]

\* a cv2.VideoCapture object
NewHandle(opened) == [opened |-> opened, released |-> FALSE]

\* cap.release()
Release(hs, h) == [hs EXCEPT ![h] = [opened |-> FALSE, released |-> TRUE]]

VideoCaptureOutcomes == {"opened", "closed", "raised"}

\* WebcamProcessor.start() at time t; out is what cv2.VideoCapture does: it
\* returns an opened capture, returns one that is not opened, or raises.
\* self.cap holds <<h>> for the h-th capture object.
start(self, hs, t, out) ==
    CASE out = "raised" ->
           [ self |-> self, handles |-> hs, ret |-> FALSE ]
      [] out = "closed" ->
           [ self    |-> [self EXCEPT !.cap = <<Len(hs) + 1>>],
             handles |-> Append(hs, NewHandle(FALSE)),
             ret     |-> FALSE ]
      [] out = "opened" ->
           [ self    |-> [self EXCEPT !.cap = <<Len(hs) + 1>>, !.running = TRUE,
                                      !.last_time = t],
             handles |-> Append(hs, NewHandle(TRUE)),
             ret     |-> TRUE ]

\* a stop that only clears the flag
stop_flag_only(self, hs) ==
    [ self |-> [self EXCEPT !.running = FALSE], handles |-> hs ]

\* WebcamProcessor.stop()
stop(self, hs) ==
    IF self.cap # None
    THEN [ self    |-> [self EXCEPT !.running = FALSE, !.cap = None],
           handles |-> Release(hs, self.cap[1]) ]
    ELSE [ self |-> [self EXCEPT !.running = FALSE], handles |-> hs ]

\* WebcamProcessor.is_running()
is_running(self, hs) ==
    self.running /\ self.cap # None /\ hs[self.cap[1]].opened

\* cv2.resize for frames of an IP webcam that exceed the target size
Resized(self, frame) ==
    IF ~IsInt(self.camera_index) /\ frame.large
    THEN [frame EXCEPT !.large = FALSE]
    ELSE frame

\* 10 / (current_time - last_time), in thousandths of a frame per second
FpsOf(t, last_time) == (10 * 1000) \div (t - last_time)

\* a read that stops the source when the capture read fails
read_frame_stops(self, hs, t, got) ==
    IF ~is_running(self, hs)
    THEN [ self |-> self, handles |-> hs, ret |-> <<FALSE, None>>, sampled |-> FALSE ]
    ELSE IF got = None
    THEN [ self |-> [self EXCEPT !.running = FALSE], handles |-> hs,
           ret |-> <<FALSE, None>>, sampled |-> FALSE ]
    ELSE LET n == self.frame_count + 1
         IN  IF n % 10 = 0
             THEN [ self |-> [self EXCEPT !.frame_count = n,
                                          !.fps = FpsOf(t, self.last_time),
                                          !.last_time = t],
                    handles |-> hs,
                    ret |-> <<TRUE, Resized(self, got)>>, sampled |-> TRUE ]
             ELSE [ self |-> [self EXCEPT !.frame_count = n], handles |-> hs,
                    ret |-> <<TRUE, Resized(self, got)>>, sampled |-> FALSE ]

\* WebcamProcessor.read_frame() at time t; got is the frame cap.read()
\* delivers, or None when the read fails
read_frame(self, hs, t, got) ==
    IF ~is_running(self, hs)
    THEN [ self |-> self, handles |-> hs, ret |-> <<FALSE, None>>, sampled |-> FALSE ]
    ELSE IF got = None
    THEN [ self |-> self, handles |-> hs, ret |-> <<FALSE, None>>, sampled |-> FALSE ]
    ELSE LET n == self.frame_count + 1
         IN  IF n % 10 = 0
             THEN [ self |-> [self EXCEPT !.frame_count = n,
                                          !.fps = FpsOf(t, self.last_time),
                                          !.last_time = t],
                    handles |-> hs,
                    ret |-> <<TRUE, Resized(self, got)>>, sampled |-> TRUE ]
             ELSE [ self |-> [self EXCEPT !.frame_count = n], handles |-> hs,
                    ret |-> <<TRUE, Resized(self, got)>>, sampled |-> FALSE ]

\* draw_boxes(image, detections): a copy of the image with one box and label
\* drawn for every detection
draw_boxes(img, detections) == [img EXCEPT !.drawn = img.drawn \o detections]

\* frame.copy()
Copy(frame) == frame

\* a process_frame that detects whatever the checkbox says
process_frame_always(self, frame, enable_detection, conf_threshold, raises, draw_raises) ==
    IF self.model = None
    THEN [ frame |-> Copy(frame), detections |-> <<>>, called |-> FALSE ]
    ELSE LET detections == detect_objects(self.model, frame, conf_threshold, raises)
         IN  IF draw_raises
             THEN [ frame |-> Copy(frame), detections |-> <<>>, called |-> TRUE ]
             ELSE [ frame |-> draw_boxes(frame, detections),
                    detections |-> detections, called |-> TRUE ]

\* WebcamProcessor.process_frame(frame, enable_detection, conf_threshold);
\* raises: the inference raises inside detect_objects, draw_raises: draw_boxes
\* raises; called: detect_objects was called.  load_model() inside
\* detect_objects returns the cached value self.model was built from.
process_frame(self, frame, enable_detection, conf_threshold, raises, draw_raises) ==
    IF ~enable_detection \/ self.model = None
    THEN [ frame |-> Copy(frame), detections |-> <<>>, called |-> FALSE ]
    ELSE LET detections == detect_objects(self.model, frame, conf_threshold, raises)
         IN  IF draw_raises
             THEN [ frame |-> Copy(frame), detections |-> <<>>, called |-> TRUE ]
             ELSE [ frame |-> draw_boxes(frame, detections),
                    detections |-> detections, called |-> TRUE ]

\* WebcamProcessor.get_fps()
get_fps(self) == self.fps

InitFrame ==
    /\ clock = StartTime
    /\ processor = NewProcessor(LocalCamera, None, StartTime)
    /\ handles = <<>>
    /\ since_sample = 0
    /\ fs_last = None

\* the script threads that call load_model()
Loaders == {1, 2, 3}

InitLoad ==
    /\ lm_pc = [s \in Loaders |-> "idle"]
    /\ lm_lock = None
    /\ lm_val = [s \in Loaders |-> <<>>]
    /\ lm_ret = [s \in Loaders |-> <<>>]
    /\ lm_calls = [s \in Loaders |-> 0]
    /\ lm_missed = {}
    /\ n_loads = 0

\* the species alerts are sent for, all for one user
AlertSpecies == {CLASS_NAMES[0], CLASS_NAMES[3]}

\* the alerts collection with no record
NoRecords == [sp \in AlertSpecies |-> None]

InitAlert ==
    /\ alerts_collection = NoRecords
    /\ send_threads = {}
    /\ alert_log = <<>>
    /\ alert_ret = None

\* the page before the camera is started
InitLoop ==
    /\ loop_pc = "off"
    /\ webcam_running = FALSE
    /\ ui_enable_detection = TRUE
    /\ frame_skip_counter = 0
    /\ last_snapshot_time = 0
    /\ loop_frame = None
    /\ shown = None
    /\ routed = FALSE
    /\ attempts = <<>>
    /\ detections_db = <<>>

Init ==
    /\ InitVerifier /\ InitPure /\ InitStore /\ InitFrame /\ InitLoad /\ InitAlert
    /\ InitLoop

\* the clock advances
Tick ==
    /\ now < MaxTime
    /\ now' = now + 1
    /\ UNCHANGED << disk, model_cache, pc, image, t0, layer1_detections,
                    best_layer1, snapshot_path, snapshot_image, result, oplog,
                    entry_files, retained, written >>

\* load_model() under st.cache_resource: the first call runs the body and
\* caches what it returns (the model, or None when loading failed)
load_model(cache, loaded) ==
    IF cache # <<>> THEN cache
    ELSE IF loaded THEN <<YOLO>> ELSE <<None>>

\* one library or helper call of an attempt: what was called, on what, and
\* what it returned
LogEntry(op, arg, ret) == [op |-> op, arg |-> arg, ret |-> ret]

\* the rejection reasons of verify_detection_2layer
NoLayer1Reason_generic == << "No detection" >>
NoLayer1Reason == << "No Layer 1 detection" >>
SaveFailedReason == << "Snapshot save failed" >>
ReadFailedReason_copied == << "Snapshot save failed" >>
ReadFailedReason == << "Snapshot read failed" >>
NoLayer2Reason == << "No Layer 2 detection" >>

\* verify_detection_2layer returns r in session s
Return(s, r, files, log) ==
    /\ result' = [result EXCEPT ![s] = r]
    /\ disk' = files
    /\ oplog' = [oplog EXCEPT ![s] = log]
    /\ retained' = IF r.verified THEN retained \cup {r.snapshot_path} ELSE retained
    /\ pc' = [pc EXCEPT ![s] = "idle"]
    /\ image' = [image EXCEPT ![s] = None]
    /\ layer1_detections' = [layer1_detections EXCEPT ![s] = <<>>]
    /\ best_layer1' = [best_layer1 EXCEPT ![s] = None]
    /\ snapshot_path' = [snapshot_path EXCEPT ![s] = None]
    /\ snapshot_image' = [snapshot_image EXCEPT ![s] = None]

Rejected(l1, l2, reason) ==
    [ layer1_detections |-> l1,
      layer2_detections |-> l2,
      verified          |-> FALSE,
      snapshot_path     |-> None,
      best_detection    |-> None,
      rejection_reason  |-> reason ]

\* session s calls verify_detection_2layer(img): detect_objects loads the
\* model and starts the Layer-1 inference
Call(s, img) ==
    /\ pc[s] = "idle"
    /\ \E loaded \in BOOLEAN : model_cache' = load_model(model_cache, loaded)
    /\ pc' = [pc EXCEPT ![s] = "layer1"]
    /\ image' = [image EXCEPT ![s] = img]
    /\ t0' = [t0 EXCEPT ![s] = now]
    /\ result' = [result EXCEPT ![s] = None]
    /\ oplog' = [oplog EXCEPT ![s] = <<>>]
    /\ entry_files' = [entry_files EXCEPT ![s] = disk]
    /\ UNCHANGED << now, disk, layer1_detections, best_layer1, snapshot_path,
                    snapshot_image, retained, written >>

\* lines 91-104: the Layer-1 detect_objects call returns
Layer1(s) ==
    /\ pc[s] = "layer1"
    /\ model_cache[1] # None => now > t0[s]
    /\ \E raises \in BOOLEAN :
         LET dets == detect_objects(model_cache[1], image[s], LAYER1_CONFIDENCE, raises)
             log  == Append(oplog[s], LogEntry("detect",
                               <<LAYER1_CONFIDENCE, image[s].src,
                                 raises /\ model_cache[1] # None>>, dets))
         IN  IF dets = <<>>
             THEN /\ Return(s, Rejected(<<>>, <<>>, NoLayer1Reason), disk, log)
                  /\ UNCHANGED << now, model_cache, t0, entry_files, written >>
             ELSE /\ layer1_detections' = [layer1_detections EXCEPT ![s] = dets]
                  /\ best_layer1' = [best_layer1 EXCEPT ![s] =
                                        get_highest_confidence_detection(dets)]
                  /\ oplog' = [oplog EXCEPT ![s] = log]
                  /\ pc' = [pc EXCEPT ![s] = "save"]
                  /\ UNCHANGED << now, disk, model_cache, image, t0,
                                  snapshot_path, snapshot_image, result,
                                  entry_files, retained, written >>

\* lines 107-117: save_snapshot(image, best_layer1, source="verification")
SaveSnapshot(s) ==
    /\ pc[s] = "save"
    /\ \E out \in ImwriteOutcomes :
         LET saved == save_snapshot(disk, now, image[s], best_layer1[s], "verification", out)
             log   == Append(oplog[s],
                             LogEntry("save_snapshot",
                                      <<out, SnapshotPath(now, best_layer1[s], "verification")>>,
                                      saved.ret))
         IN  IF saved.ret = None
             THEN /\ Return(s, Rejected(layer1_detections[s], <<>>,
                                        SaveFailedReason), saved.files, log)
                  /\ written' = written \cup (saved.files \ disk)
                  /\ UNCHANGED << now, model_cache, t0, entry_files >>
             ELSE /\ disk' = saved.files
                  /\ written' = written \cup (saved.files \ disk)
                  /\ snapshot_path' = [snapshot_path EXCEPT ![s] = saved.ret]
                  /\ oplog' = [oplog EXCEPT ![s] = log]
                  /\ pc' = [pc EXCEPT ![s] = "read"]
                  /\ UNCHANGED << now, model_cache, image, t0,
                                  layer1_detections, best_layer1, snapshot_image,
                                  result, entry_files, retained >>

\* lines 121-132: cv2.imread(snapshot_path)
ReadSnapshot(s) ==
    /\ pc[s] = "read"
    /\ \E img \in imread(disk, snapshot_path[s]) :
         LET log == Append(oplog[s],
                           LogEntry("imread", snapshot_path[s],
                                    IF img = None THEN "none" ELSE "ok"))
         IN  IF img = None
             THEN LET del == delete_snapshot(disk, snapshot_path[s])
                  IN  /\ Return(s, Rejected(layer1_detections[s], <<>>,
                                            ReadFailedReason), del.files,
                                Append(log, LogEntry("delete_snapshot", snapshot_path[s], del.ret)))
                      /\ UNCHANGED << now, model_cache, t0, entry_files, written >>
             ELSE /\ snapshot_image' = [snapshot_image EXCEPT ![s] = img]
                  /\ oplog' = [oplog EXCEPT ![s] = log]
                  /\ pc' = [pc EXCEPT ![s] = "layer2"]
                  /\ UNCHANGED << now, disk, model_cache, image, t0,
                                  layer1_detections, best_layer1, snapshot_path,
                                  result, entry_files, retained, written >>

\* a reason that interpolates the Layer-1 species twice
MismatchReason_l1twice(l1, l2) == << "Species mismatch: L1=", l1, ", L2=", l1 >>

\* f"Species mismatch: L1={l1}, L2={l2}"
MismatchReason(l1, l2) == << "Species mismatch: L1=", l1, ", L2=", l2 >>

\* a summary that takes both bounding boxes from the Layer-2 detection
Verified_samebbox(l1, l2, path, best1, best2) ==
    [ layer1_detections |-> l1,
      layer2_detections |-> l2,
      verified          |-> TRUE,
      snapshot_path     |-> path,
      best_detection    |->
          [ species           |-> best2.class_name,
            confidence_layer1 |-> best1.confidence,
            confidence_layer2 |-> best2.confidence,
            bbox_layer1       |-> best2.bbox,
            bbox_layer2       |-> best2.bbox ],
      rejection_reason  |-> None ]

\* lines 165-178: the result of a passed verification
Verified(l1, l2, path, best1, best2) ==
    [ layer1_detections |-> l1,
      layer2_detections |-> l2,
      verified          |-> TRUE,
      snapshot_path     |-> path,
      best_detection    |->
          [ species           |-> best2.class_name,
            confidence_layer1 |-> best1.confidence,
            confidence_layer2 |-> best2.confidence,
            bbox_layer1       |-> best1.bbox,
            bbox_layer2       |-> best2.bbox ],
      rejection_reason  |-> None ]

\* lines 134-178: the Layer-2 detect_objects call and the verification check
Layer2(s) ==
    /\ pc[s] = "layer2"
    /\ \E raises \in BOOLEAN :
         LET dets  == detect_objects(model_cache[1], snapshot_image[s],
                                     LAYER2_CONFIDENCE, raises)
             log   == Append(oplog[s],
                             LogEntry("detect",
                                      <<LAYER2_CONFIDENCE, snapshot_image[s].src,
                                        raises /\ model_cache[1] # None>>, dets))
             del   == delete_snapshot(disk, snapshot_path[s])
             dlog  == Append(log, LogEntry("delete_snapshot", snapshot_path[s], del.ret))
             best2 == get_highest_confidence_detection(dets)
         IN  /\ IF dets = <<>>
                THEN Return(s, Rejected(layer1_detections[s], <<>>,
                                        NoLayer2Reason), del.files, dlog)
                ELSE IF best_layer1[s].class_name # best2.class_name
                THEN Return(s, Rejected(layer1_detections[s], dets,
                                        MismatchReason(best_layer1[s].class_name,
                                                       best2.class_name)),
                            del.files, dlog)
                ELSE Return(s, Verified(layer1_detections[s], dets, snapshot_path[s],
                                        best_layer1[s], best2), disk, log)
             /\ UNCHANGED << now, model_cache, t0, entry_files, written >>

\* verify_detection_2layer, one caller at a time
Verify(s) ==
    \/ \E img \in MemoryImages : Call(s, img)
    \/ Layer1(s)
    \/ SaveSnapshot(s)
    \/ ReadSnapshot(s)
    \/ Layer2(s)

\* calls of the verifier that do not overlap
Next ==
    /\ \/ Tick
       \/ \E s \in Callers : Verify(s)
    /\ UNCHANGED << pureVars, storeVars, frameVars, loadVars, alertVars, loopVars >>

Spec == Init /\ [][Next]_vars

\* ------------------------------------------------------------- overlapping calls
\* the images two sessions verify at the same moment: one animal of
\* either species
SharedImages ==
    { [src |-> "memory", boxes |-> b] :
        b \in { << [cls |-> 0, conf |-> 600, xyxy |-> <<205, 207, 613, 518>>] >>,
                << [cls |-> 3, conf |-> 600, xyxy |-> <<205, 207, 613, 518>>] >> } }

\* what the re-read of such a snapshot shows
SharedSnapshots == { [src |-> "disk", boxes |-> i.boxes] : i \in SharedImages }

\* verify_detection_2layer in a session of its own script thread; the
\* Layer-2 inference, like the Layer-1 one, takes more than a millisecond,
\* so it returns after the clock value in the name of the snapshot
VerifyShared(s) ==
    \/ \E img \in SharedImages : Call(s, img)
    \/ Layer1(s)
    \/ SaveSnapshot(s)
    \/ ReadSnapshot(s) /\ snapshot_image'[s] \in SharedSnapshots \cup {None}
    \/ Layer2(s) /\ now > snapshot_path[s].timestamp

\* calls of the verifier from the sessions of one server process: every
\* session runs its script in a thread of its own, on one snapshot directory
NextShared ==
    /\ \/ Tick
       \/ \E s \in Sessions : VerifyShared(s)
    /\ UNCHANGED << pureVars, storeVars, frameVars, loadVars, alertVars, loopVars >>

SpecShared == Init /\ [][NextShared]_vars

\* ------------------------------------------------------------- pure helpers
\* the detections a list given to the helpers is made of
PureDetections ==
    { [ class_id   |-> c,
        class_name |-> ClassNameOf(c),
        confidence |-> p,
        bbox       |-> <<10, 10, 50, 40>> ] : c \in {0, 3}, p \in {500, 750, 800} }

InitHelpers ==
    /\ InitVerifier
    /\ InitStore
    /\ InitFrame
    /\ InitLoad
    /\ InitAlert
    /\ InitLoop
    /\ pure_arg \in SeqsUpTo(PureDetections, MaxLen)
    /\ pure_called = {}
    /\ pure_best = None
    /\ pure_trigger = FALSE
    /\ det_image = None
    /\ det_ret = None

ApplyHighest ==
    /\ "highest" \notin pure_called
    /\ pure_best' = get_highest_confidence_detection(pure_arg)
    /\ pure_called' = pure_called \cup {"highest"}
    /\ UNCHANGED << pure_arg, pure_trigger, det_image, det_ret >>

ApplyTrigger ==
    /\ "trigger" \notin pure_called
    /\ pure_trigger' = should_trigger_snapshot(pure_arg)
    /\ pure_called' = pure_called \cup {"trigger"}
    /\ UNCHANGED << pure_arg, pure_best, det_image, det_ret >>

NextHelpers ==
    /\ \/ ApplyHighest
       \/ ApplyTrigger
    /\ UNCHANGED << verifierVars, storeVars, frameVars, loadVars, alertVars, loopVars >>

SpecHelpers == InitHelpers /\ [][NextHelpers]_vars

\* ------------------------------------------------------------- detect_objects, called directly
\* the class ids a weights file can report: load_model only checks that the
\* model has class names, so the ids of config.CLASS_NAMES and one beyond
ModelClassIds == DOMAIN CLASS_NAMES \cup {Cardinality(DOMAIN CLASS_NAMES)}

ModelBoxes ==
    { [cls |-> c, conf |-> 600, xyxy |-> <<205, 207, 613, 518>>] : c \in ModelClassIds }

DetectImages ==
    { [src |-> "memory", boxes |-> b] : b \in SeqsUpTo(ModelBoxes, MaxBoxes) }

InitDetect ==
    /\ InitVerifier /\ InitStore /\ InitFrame /\ InitLoad /\ InitAlert /\ InitLoop
    /\ pure_arg = <<>>
    /\ pure_called = {}
    /\ pure_best = None
    /\ pure_trigger = FALSE
    /\ det_image \in DetectImages
    /\ det_ret = None

\* detect_objects(image, conf_threshold) with the model loaded
DetectCall ==
    /\ det_ret = None
    /\ \E conf_threshold \in {LAYER1_CONFIDENCE, LAYER2_CONFIDENCE}, raises \in BOOLEAN :
         det_ret' = [ conf_threshold |-> conf_threshold,
                      raises         |-> raises,
                      ret |-> detect_objects(YOLO, det_image, conf_threshold, raises) ]
    /\ UNCHANGED << pure_arg, pure_called, pure_best, pure_trigger, det_image >>

NextDetect ==
    /\ DetectCall
    /\ UNCHANGED << verifierVars, storeVars, frameVars, loadVars, alertVars, loopVars >>

SpecDetect == InitDetect /\ [][NextDetect]_vars

\* ------------------------------------------------------------- snapshot store, called directly
\* the paths a caller of delete_snapshot passes
StorePaths == { SnapshotPath(0, ParseBox(b), "verification") : b \in RawBoxes }

\* the directory holds any of the paths; nothing else has happened
InitSnapshotStore ==
    /\ now = 0
    /\ disk \in SUBSET StorePaths
    /\ model_cache = <<>>
    /\ pc = [s \in Sessions |-> "idle"]
    /\ image = [s \in Sessions |-> None]
    /\ t0 = [s \in Sessions |-> 0]
    /\ layer1_detections = [s \in Sessions |-> <<>>]
    /\ best_layer1 = [s \in Sessions |-> None]
    /\ snapshot_path = [s \in Sessions |-> None]
    /\ snapshot_image = [s \in Sessions |-> None]
    /\ result = [s \in Sessions |-> None]
    /\ oplog = [s \in Sessions |-> <<>>]
    /\ entry_files = [s \in Sessions |-> {}]
    /\ retained = {}
    /\ written = disk
    /\ InitPure
    /\ InitStore
    /\ InitFrame
    /\ InitLoad
    /\ InitAlert
    /\ InitLoop

\* delete_snapshot(filepath) called on its own
DeleteCall(filepath) ==
    /\ Len(store_hist) < MaxDeletes
    /\ LET del == delete_snapshot(disk, filepath)
       IN  /\ disk' = del.files
           /\ store_hist' = Append(store_hist,
                                   [ filepath |-> filepath, before |-> disk,
                                     after |-> del.files, ret |-> del.ret ])
    /\ UNCHANGED << now, model_cache, pc, image, t0, layer1_detections,
                    best_layer1, snapshot_path, snapshot_image, result, oplog,
                    entry_files, retained, written >>

NextStore ==
    /\ \E filepath \in StorePaths : DeleteCall(filepath)
    /\ UNCHANGED << pureVars, frameVars, loadVars, alertVars, loopVars >>

SpecStore == InitSnapshotStore /\ [][NextStore]_vars

\* ------------------------------------------------------------- frame source, called directly
\* a frame source is constructed for a local camera or an IP webcam, with the
\* model loaded or not
InitFrameSource ==
    /\ InitVerifier
    /\ InitPure
    /\ InitStore
    /\ InitLoad
    /\ InitAlert
    /\ InitLoop
    /\ clock = StartTime
    /\ \E camera_index \in {LocalCamera, IPWebcam}, m \in {YOLO, None} :
         processor = NewProcessor(camera_index, m, StartTime)
    /\ handles = <<>>
    /\ since_sample = 0
    /\ fs_last = None

\* what is remembered of a call: its name, argument and return value, whether
\* it called the detector or sampled the frame rate, the state it started
\* from and the call before it
CallRecord(op, arg, ret, called, sampled) ==
    [ op |-> op, arg |-> arg, ret |-> ret, called |-> called, sampled |-> sampled,
      pre |-> processor, pre_handles |-> handles, since |-> since_sample,
      prev |-> IF fs_last = None THEN "__init__" ELSE fs_last.op ]

\* time.time() advances
ClockTick ==
    /\ clock < StartTime + MaxClock
    /\ clock' = clock + 1
    /\ UNCHANGED << processor, handles, since_sample, fs_last >>

\* processor.start()
StartCall ==
    /\ Len(handles) < MaxStarts
    /\ \E out \in VideoCaptureOutcomes :
         LET r == start(processor, handles, clock, out)
         IN  /\ processor' = r.self
             /\ handles' = r.handles
             /\ since_sample' = IF r.ret THEN 0 ELSE since_sample
             /\ fs_last' = CallRecord("start", out, r.ret, FALSE, FALSE)
    /\ UNCHANGED clock

\* processor.stop()
StopCall ==
    /\ LET r == stop(processor, handles)
       IN  /\ processor' = r.self
           /\ handles' = r.handles
    /\ fs_last' = CallRecord("stop", None, None, FALSE, FALSE)
    /\ UNCHANGED << clock, since_sample >>

\* this read is the one that samples the frame rate
Samples(self, hs, got) ==
    is_running(self, hs) /\ got # None /\ (self.frame_count + 1) % 10 = 0

\* processor.read_frame(); a read that samples the frame rate happens after
\* the sample time it measures from
ReadCall ==
    /\ processor.frame_count < MaxFrames
    /\ \E got \in CameraFrames \cup {None} :
         LET r == read_frame(processor, handles, clock, got)
         IN  /\ Samples(processor, handles, got) => clock > processor.last_time
             /\ processor' = r.self
             /\ handles' = r.handles
             /\ since_sample' = IF r.sampled THEN 0
                                 ELSE IF r.ret[1] THEN since_sample + 1
                                 ELSE since_sample
             /\ fs_last' = CallRecord("read_frame", got, r.ret, FALSE, r.sampled)
    /\ UNCHANGED clock

\* processor.process_frame(frame, enable_detection, conf_threshold)
ProcessCall ==
    /\ \E frame \in CameraFrames, enable_detection \in BOOLEAN,
          raises \in BOOLEAN, draw_raises \in BOOLEAN :
         LET r == process_frame(processor, frame, enable_detection,
                                LAYER1_CONFIDENCE, raises, draw_raises)
         IN  fs_last' = CallRecord("process_frame",
                                   [frame |-> frame, enable_detection |-> enable_detection,
                                    raises |-> raises, draw_raises |-> draw_raises],
                                   <<r.frame, r.detections>>, r.called, FALSE)
    /\ UNCHANGED << clock, processor, handles, since_sample >>

NextFrame ==
    /\ \/ ClockTick
       \/ StartCall
       \/ StopCall
       \/ ReadCall
    /\ UNCHANGED << verifierVars, pureVars, storeVars, loadVars, alertVars, loopVars >>

SpecFrame == InitFrameSource /\ [][NextFrame]_vars

NextProcess ==
    /\ ProcessCall
    /\ UNCHANGED << verifierVars, pureVars, storeVars, loadVars, alertVars, loopVars >>

SpecProcess == InitFrameSource /\ [][NextProcess]_vars

\* ------------------------------------------------------------- load_model, called concurrently
\* st.cache_resource around load_model: a call first looks the value up
\* without a lock; on a miss it takes the lock that guards the computation,
\* looks the value up again, and only then runs the body and caches what it
\* returned.
\* the lock that guards the computation can be taken
CanCompute_unguarded(lock) == TRUE

CanCompute(lock) == lock = None

LoadRest == << now, disk, pc, image, t0, layer1_detections, best_layer1,
               snapshot_path, snapshot_image, result, oplog, entry_files,
               retained, written >>

\* load_model() is called: the lookup without the lock
LoadLookup(s) ==
    /\ lm_pc[s] = "idle"
    /\ lm_calls[s] < MaxLoadCalls
    /\ lm_calls' = [lm_calls EXCEPT ![s] = @ + 1]
    /\ IF model_cache # <<>>
       THEN /\ lm_ret' = [lm_ret EXCEPT ![s] = model_cache]
            /\ UNCHANGED << lm_pc, lm_missed >>
       ELSE /\ lm_pc' = [lm_pc EXCEPT ![s] = "miss"]
            /\ lm_missed' = lm_missed \cup {s}
            /\ UNCHANGED lm_ret
    /\ UNCHANGED << model_cache, lm_lock, lm_val, n_loads >>

\* the lock is taken and the value looked up again
LoadLock(s) ==
    /\ lm_pc[s] = "miss"
    /\ CanCompute(lm_lock)
    /\ IF model_cache # <<>>
       THEN /\ lm_ret' = [lm_ret EXCEPT ![s] = model_cache]
            /\ lm_pc' = [lm_pc EXCEPT ![s] = "idle"]
            /\ UNCHANGED lm_lock
       ELSE /\ lm_lock' = <<s>>
            /\ lm_pc' = [lm_pc EXCEPT ![s] = "body"]
            /\ UNCHANGED lm_ret
    /\ UNCHANGED << model_cache, lm_val, lm_calls, lm_missed, n_loads >>

\* lines 23-78: the body loads the weights, or fails and returns None
LoadBody(s) ==
    /\ lm_pc[s] = "body"
    /\ \E loaded \in BOOLEAN :
         lm_val' = [lm_val EXCEPT ![s] = load_model(<<>>, loaded)]
    /\ n_loads' = n_loads + 1
    /\ lm_pc' = [lm_pc EXCEPT ![s] = "store"]
    /\ UNCHANGED << model_cache, lm_lock, lm_ret, lm_calls, lm_missed >>

\* the value is cached, the lock released and the value returned
LoadStore(s) ==
    /\ lm_pc[s] = "store"
    /\ model_cache' = lm_val[s]
    /\ lm_ret' = [lm_ret EXCEPT ![s] = lm_val[s]]
    /\ lm_lock' = None
    /\ lm_pc' = [lm_pc EXCEPT ![s] = "idle"]
    /\ UNCHANGED << lm_val, lm_calls, lm_missed, n_loads >>

NextLoad ==
    /\ \E s \in Loaders :
         \/ LoadLookup(s)
         \/ LoadLock(s)
         \/ LoadBody(s)
         \/ LoadStore(s)
    /\ UNCHANGED << LoadRest, pureVars, storeVars, frameVars, alertVars, loopVars >>

SpecLoad == Init /\ [][NextLoad]_vars

\* ------------------------------------------------------------- e-mail alerts
\* check_alert_cooldown(species, user_id) at time t; raises: find_one raises
check_alert_cooldown(collection, species, t, raises) ==
    IF collection = None THEN TRUE
    ELSE IF raises THEN TRUE
    ELSE IF collection[species] = None THEN TRUE
    ELSE t - collection[species][1] >= ALERT_COOLDOWN_SECONDS

\* update_alert_timestamp(species, user_id) at time t; raises: update_one raises
update_alert_timestamp(collection, species, t, raises) ==
    IF collection = None THEN collection
    ELSE IF raises THEN collection
    ELSE [collection EXCEPT ![species] = <<t>>]

\* the database is reachable or get_collection returns None
InitAlertService ==
    /\ InitVerifier /\ InitPure /\ InitStore /\ InitFrame /\ InitLoad /\ InitLoop
    /\ alerts_collection \in {NoRecords, None}
    /\ send_threads = {}
    /\ alert_log = <<>>
    /\ alert_ret = None

AlertRest == << processor, handles, since_sample, fs_last >>

\* datetime.now() advances
AlertTick ==
    /\ clock < StartTime + MaxAlertClock
    /\ clock' = clock + 1
    /\ UNCHANGED alertVars

\* send_alert_if_ready(species, ...): the cooldown check, then
\* send_email_async starts a daemon thread and the call returns at once
SendAlertIfReady(species) ==
    /\ Len(alert_log) < MaxAlerts
    /\ \E raises \in BOOLEAN :
         IF ~check_alert_cooldown(alerts_collection, species, clock, raises)
         THEN /\ alert_ret' = <<FALSE, "Alert in cooldown for ", species>>
              /\ UNCHANGED << send_threads, alert_log >>
         ELSE /\ send_threads' = send_threads \cup
                     {[species |-> species, id |-> Len(alert_log) + 1]}
              /\ alert_log' = Append(alert_log, [species |-> species, at |-> clock,
                                                 sent |-> "pending"])
              /\ alert_ret' = <<TRUE, "Alert sent for ", species>>
    /\ UNCHANGED << clock, alerts_collection >>

\* a thread body that writes the timestamp whatever the send returned
send_thread_always(collection, species, t, success, raises) ==
    update_alert_timestamp(collection, species, t, raises)

\* the body of send_thread after send_email_sync returned success
send_thread(collection, species, t, success, raises) ==
    IF success
    THEN update_alert_timestamp(collection, species, t, raises)
    ELSE collection

\* send_thread: send_email_sync returns, and the timestamp is written when
\* the e-mail was sent; the log keeps what the send returned
SendThread(th) ==
    /\ th \in send_threads
    /\ send_threads' = send_threads \ {th}
    /\ \E success \in BOOLEAN, raises \in BOOLEAN :
         /\ alerts_collection' =
                send_thread(alerts_collection, th.species, clock, success, raises)
         /\ alert_log' = [alert_log EXCEPT ![th.id].sent =
                              IF success THEN "sent" ELSE "failed"]
    /\ UNCHANGED << clock, alert_ret >>

NextAlert ==
    /\ \/ AlertTick
       \/ \E species \in AlertSpecies : SendAlertIfReady(species)
       \/ \E th \in send_threads : SendThread(th)
    /\ UNCHANGED << verifierVars, pureVars, storeVars, AlertRest, loadVars, loopVars >>

SpecAlert == InitAlertService /\ [][NextAlert]_vars

\* ------------------------------------------------------------- live page
\* line 195: should_process, from the frame counter of this run of the loop
should_process_every(counter) == TRUE

should_process(counter) == counter % PROCESS_EVERY_N_FRAMES = 0

\* lines 208-209: can_snapshot
can_snapshot_always(camera_index, time_since_last) == TRUE

can_snapshot(camera_index, time_since_last) ==
    IsInt(camera_index) \/ time_since_last >= SNAPSHOT_COOLDOWN

\* the class names of detections, each once, in order of first appearance
DistinctSpecies(detections) ==
    LET First(i) == \A j \in 1..(i - 1) :
                        detections[j].class_name # detections[i].class_name
        idx == SelectSeq([i \in 1..Len(detections) |-> i], First)
    IN  [k \in 1..Len(idx) |-> detections[idx[k]].class_name]

\* lines 268-296: for every species of a verified result, save_detection and,
\* when the document was inserted, send_alert_if_ready; acc carries the
\* detections collection, the alerts collection and the send threads
RECURSIVE SaveDetections(_, _, _, _, _, _)
SaveDetections(species, res, acc, t, inserted, raises) ==
    IF species = <<>> \/ ~inserted THEN acc
    ELSE LET sp   == Head(species)
             Is(d) == d.class_name = sp
             det  == get_highest_confidence_detection(
                         SelectSeq(res.layer2_detections, Is))
             l1   == SelectSeq(res.layer1_detections, Is)
             layer1_conf == IF l1 # <<>> THEN l1[1].confidence ELSE det.confidence
             alert_sent  == check_alert_cooldown(alerts_collection, sp, t, raises)
             doc  == [ species           |-> sp,
                       confidence_layer1 |-> layer1_conf,
                       confidence_layer2 |-> det.confidence,
                       snapshot_path     |-> res.snapshot_path,
                       alert_sent        |-> alert_sent ]
         IN  SaveDetections(Tail(species), res,
                 [ db      |-> Append(acc.db, doc),
                   threads |-> IF alert_sent
                               THEN acc.threads \cup
                                        {[species |-> sp, id |-> Len(acc.log) + 1]}
                               ELSE acc.threads,
                   log     |-> IF alert_sent
                               THEN Append(acc.log, [species |-> sp, at |-> t,
                                                     sent |-> "pending"])
                               ELSE acc.log ],
                 t, inserted, raises)

\* a page with a frame source for a local camera or an IP webcam; the model
\* is loaded or not when the source is constructed
InitPage ==
    /\ InitPure /\ InitStore /\ InitLoad /\ InitAlert /\ InitLoop
    /\ now = 0
    /\ disk = {}
    /\ pc = [s \in Sessions |-> "idle"]
    /\ image = [s \in Sessions |-> None]
    /\ t0 = [s \in Sessions |-> 0]
    /\ layer1_detections = [s \in Sessions |-> <<>>]
    /\ best_layer1 = [s \in Sessions |-> None]
    /\ snapshot_path = [s \in Sessions |-> None]
    /\ snapshot_image = [s \in Sessions |-> None]
    /\ result = [s \in Sessions |-> None]
    /\ oplog = [s \in Sessions |-> <<>>]
    /\ entry_files = [s \in Sessions |-> {}]
    /\ retained = {}
    /\ written = {}
    /\ clock = StartTime
    /\ \E camera_index \in {LocalCamera, IPWebcam}, m \in {YOLO, None} :
         /\ model_cache = <<m>>
         /\ processor = NewProcessor(camera_index, m, StartTime)
    /\ handles = <<>>
    /\ since_sample = 0
    /\ fs_last = None

\* the st.* calls at which a widget interaction ends the running script
InterruptPoints == {"off", "display"}

\* what the page's snapshots show when read back: nothing, the animal of the
\* frame, another animal
PageSnapshots ==
    { [src |-> "disk", boxes |-> b] :
        b \in { <<>>, <<WeakBox>>, <<[WeakBox EXCEPT !.cls = 3]>> } }

PageRest == << pureVars, storeVars, loadVars, since_sample, fs_last >>

\* time.time() advances.  The page reads it in the iteration that follows a
\* sleep, and only to compare the time since the last attempt with the
\* cooldown, so it is enough that it advances while the loop sleeps and
\* until the cooldown has elapsed.
LoopTick ==
    /\ loop_pc = "display"
    /\ clock - last_snapshot_time < SNAPSHOT_COOLDOWN
    /\ clock' = clock + 1
    /\ UNCHANGED << verifierVars, processor, handles, alertVars, loopVars >>

\* lines 123-130: the Start button
PressStart ==
    /\ loop_pc = "off"
    /\ ~webcam_running
    /\ Len(handles) < MaxStarts
    /\ \E out \in VideoCaptureOutcomes :
         LET r == start(processor, handles, clock, out)
         IN  /\ processor' = r.self
             /\ handles' = r.handles
             /\ webcam_running' = r.ret
             /\ loop_pc' = IF r.ret THEN "top" ELSE "off"
    /\ frame_skip_counter' = 0
    /\ UNCHANGED << verifierVars, clock, alertVars, ui_enable_detection,
                    last_snapshot_time, loop_frame, shown, routed, attempts,
                    detections_db >>

\* lines 133-138: the Stop button
PressStop ==
    /\ loop_pc \in InterruptPoints
    /\ webcam_running
    /\ LET r == stop(processor, handles)
       IN  /\ processor' = r.self
           /\ handles' = r.handles
    /\ webcam_running' = FALSE
    /\ loop_pc' = "off"
    /\ loop_frame' = None
    /\ shown' = None
    /\ routed' = FALSE
    /\ UNCHANGED << verifierVars, clock, alertVars, ui_enable_detection,
                    frame_skip_counter, last_snapshot_time, attempts,
                    detections_db >>

\* lines 141-146: the checkbox is toggled and the script runs again
ToggleDetection ==
    /\ loop_pc \in InterruptPoints
    /\ ui_enable_detection' = ~ui_enable_detection
    /\ loop_pc' = IF webcam_running THEN "top" ELSE "off"
    /\ frame_skip_counter' = 0
    /\ loop_frame' = None
    /\ shown' = None
    /\ routed' = FALSE
    /\ UNCHANGED << verifierVars, clock, processor, handles, alertVars,
                    webcam_running, last_snapshot_time, attempts, detections_db >>

\* lines 187-214 and 305-307: the loop condition, read_frame, the frame
\* counter, process_frame and the snapshot gate
LoopRead ==
    /\ loop_pc = "top"
    /\ processor.frame_count < MaxLoopFrames
    /\ IF ~is_running(processor, handles)
       THEN /\ loop_pc' = "off"
            /\ UNCHANGED << processor, handles, frame_skip_counter,
                            last_snapshot_time, loop_frame, shown, routed, attempts >>
       ELSE \E got \in CameraFrames \cup {None}, raises \in BOOLEAN,
               draw_raises \in BOOLEAN :
              LET r  == read_frame(processor, handles, clock, got)
                  n  == frame_skip_counter + 1
                  pf == process_frame(r.self, r.ret[2], TRUE, LAYER1_CONFIDENCE,
                                      raises, draw_raises)
              IN  /\ Samples(processor, handles, got) => clock > processor.last_time
                  /\ processor' = r.self
                  /\ handles' = r.handles
                  /\ IF ~r.ret[1]
                     THEN /\ loop_pc' = "off"
                          /\ UNCHANGED << frame_skip_counter, last_snapshot_time,
                                          loop_frame, shown, routed, attempts >>
                     ELSE /\ frame_skip_counter' = n
                          /\ loop_frame' = r.ret[2]
                          /\ IF ui_enable_detection /\ should_process(n)
                             THEN /\ routed' = TRUE
                                  /\ shown' = <<pf.frame, pf.detections>>
                                  /\ IF /\ pf.detections # <<>>
                                        /\ should_trigger_snapshot(pf.detections)
                                        /\ can_snapshot(processor.camera_index,
                                                        clock - last_snapshot_time)
                                     THEN /\ last_snapshot_time' = clock
                                          /\ attempts' = Append(attempts,
                                                 [ at      |-> clock,
                                                   outcome |-> "pending",
                                                   frame   |-> r.self.frame_count,
                                                   counter |-> n,
                                                   enabled |-> ui_enable_detection ])
                                          /\ loop_pc' = "verify"
                                     ELSE /\ loop_pc' = "display"
                                          /\ UNCHANGED << last_snapshot_time, attempts >>
                             ELSE /\ routed' = FALSE
                                  /\ shown' = <<Copy(r.ret[2]), <<>>>>
                                  /\ loop_pc' = "display"
                                  /\ UNCHANGED << last_snapshot_time, attempts >>
    /\ UNCHANGED << verifierVars, clock, alertVars, webcam_running,
                    ui_enable_detection, detections_db >>

\* an attempt on the frame with the boxes drawn
AttemptFrame_annotated(frame, processed_frame) == processed_frame

\* line 217: the argument of verify_detection_2layer is frame, the frame as
\* read_frame returned it, not processed_frame
AttemptFrame(frame, processed_frame) == frame

\* line 217: verify_detection_2layer(frame) is called
LoopVerify ==
    /\ loop_pc = "verify"
    /\ Call(1, AttemptFrame(loop_frame, shown[1]))
    /\ loop_pc' = "verifying"
    /\ UNCHANGED << clock, processor, handles, alertVars, webcam_running,
                    ui_enable_detection, frame_skip_counter, last_snapshot_time,
                    loop_frame, shown, routed, attempts, detections_db >>

\* the steps of the call; the millisecond clock, which the call reads when
\* it names the snapshot, advances once during the Layer-1 inference
LoopVerifying ==
    /\ loop_pc = "verifying"
    /\ \/ Tick /\ pc[1] = "layer1" /\ now = t0[1]
       \/ Layer1(1)
       \/ SaveSnapshot(1)
       \/ ReadSnapshot(1) /\ snapshot_image'[1] \in PageSnapshots \cup {None}
       \/ Layer2(1)
    /\ UNCHANGED << clock, processor, handles, alertVars, loopVars >>

\* lines 219-303: the result is handled; it is not used after that
LoopAfterVerify ==
    /\ loop_pc = "verifying"
    /\ pc[1] = "idle" /\ result[1] # None
    /\ IF result[1].verified
       THEN \E inserted \in BOOLEAN, raises \in BOOLEAN :
              LET acc == SaveDetections(DistinctSpecies(result[1].layer2_detections),
                             result[1],
                             [db |-> detections_db, threads |-> send_threads,
                              log |-> alert_log],
                             clock, inserted, raises)
              IN  /\ detections_db' = acc.db
                  /\ send_threads' = acc.threads
                  /\ alert_log' = acc.log
       ELSE UNCHANGED << detections_db, send_threads, alert_log >>
    /\ attempts' = [attempts EXCEPT ![Len(attempts)].outcome =
                        IF result[1].verified THEN "verified" ELSE "rejected"]
    /\ result' = [result EXCEPT ![1] = None]
    /\ oplog' = [oplog EXCEPT ![1] = <<>>]
    /\ entry_files' = [entry_files EXCEPT ![1] = {}]
    /\ t0' = [t0 EXCEPT ![1] = 0]
    /\ loop_pc' = "display"
    /\ UNCHANGED << now, disk, model_cache, pc, image, layer1_detections,
                    best_layer1, snapshot_path, snapshot_image, retained, written,
                    clock, processor, handles, alerts_collection,
                    alert_ret, webcam_running, ui_enable_detection,
                    frame_skip_counter, last_snapshot_time, loop_frame, shown,
                    routed >>

\* lines 309-341: the frame is displayed, the loop sleeps and looks at
\* webcam_running; the frame is not used after that
LoopDisplay ==
    /\ loop_pc = "display"
    /\ loop_pc' = IF webcam_running THEN "top" ELSE "off"
    /\ loop_frame' = None
    /\ shown' = None
    /\ routed' = FALSE
    /\ UNCHANGED << verifierVars, clock, processor, handles, alertVars,
                    webcam_running, ui_enable_detection, frame_skip_counter,
                    last_snapshot_time, attempts, detections_db >>

\* the page script; the send threads it starts are daemon threads that run
\* on by themselves (SendThread)
NextPage ==
    /\ \/ LoopTick
       \/ PressStart
       \/ PressStop
       \/ ToggleDetection
       \/ LoopRead
       \/ LoopVerify
       \/ LoopVerifying
       \/ LoopAfterVerify
       \/ LoopDisplay
    /\ UNCHANGED PageRest

SpecPage == InitPage /\ [][NextPage]_vars

\* ------------------------------------------------------------- upload page
\* the uploaded picture: one animal
UploadImages == { [src |-> "memory", boxes |-> <<WeakBox>>] }

\* what the snapshot of an upload shows when read back: as for the webcam
\* page, or the animal of the picture and a second one
UploadSnapshots ==
    PageSnapshots \cup
        { [src |-> "disk", boxes |-> <<WeakBox, [WeakBox EXCEPT !.cls = 3]>>] }

\* upload_page.py lines 159-171: the Detect button calls
\* verify_detection_2layer on the uploaded image
UploadDetect ==
    /\ result[1] = None
    /\ Len(detections_db) < MaxAlerts
    /\ \E img \in UploadImages : Call(1, img)
    /\ UNCHANGED << clock, alertVars, detections_db >>

\* the steps of the call; the millisecond clock advances once during the
\* Layer-1 inference
UploadVerifying ==
    /\ \/ Tick /\ pc[1] = "layer1" /\ now = t0[1]
       \/ Layer1(1)
       \/ SaveSnapshot(1)
       \/ ReadSnapshot(1) /\ snapshot_image'[1] \in UploadSnapshots \cup {None}
       \/ Layer2(1)
    /\ UNCHANGED << clock, alertVars, detections_db >>

\* upload_page.py lines 173-260: the result is handled; for a verified one
\* every species of layer2_detections is saved and its alert started
UploadPersist ==
    /\ pc[1] = "idle" /\ result[1] # None
    /\ IF result[1].verified
       THEN \E inserted \in BOOLEAN, raises \in BOOLEAN :
              LET acc == SaveDetections(DistinctSpecies(result[1].layer2_detections),
                             result[1],
                             [db |-> detections_db, threads |-> send_threads,
                              log |-> alert_log],
                             clock, inserted, raises)
              IN  /\ detections_db' = acc.db
                  /\ send_threads' = acc.threads
                  /\ alert_log' = acc.log
       ELSE UNCHANGED << detections_db, send_threads, alert_log >>
    /\ result' = [result EXCEPT ![1] = None]
    /\ oplog' = [oplog EXCEPT ![1] = <<>>]
    /\ entry_files' = [entry_files EXCEPT ![1] = {}]
    /\ t0' = [t0 EXCEPT ![1] = 0]
    /\ UNCHANGED << now, disk, model_cache, pc, image, layer1_detections,
                    best_layer1, snapshot_path, snapshot_image, retained, written,
                    clock, alerts_collection, alert_ret >>

\* a send thread the page started finishes.  The steps of
\* verify_detection_2layer neither read nor write what the thread writes, so
\* it is enough that a thread finishes before or after them.
UploadSendThread ==
    /\ pc[1] = "idle"
    /\ \E th \in send_threads : SendThread(th)
    /\ UNCHANGED << verifierVars, detections_db >>

\* datetime.now() advances between two uploads; the page and the threads
\* read it only to compare it with the time of an earlier alert
UploadTick ==
    /\ pc[1] = "idle" /\ result[1] = None
    /\ alert_log # <<>>
    /\ AlertTick
    /\ UNCHANGED << verifierVars, detections_db >>

NextUpload ==
    /\ \/ UploadDetect
       \/ UploadVerifying
       \/ UploadPersist
       \/ UploadSendThread
       \/ UploadTick
    /\ UNCHANGED << pureVars, storeVars, loadVars, processor, handles,
                    since_sample, fs_last, loop_pc, webcam_running,
                    ui_enable_detection, frame_skip_counter, last_snapshot_time,
                    loop_frame, shown, routed, attempts >>

SpecUpload == Init /\ [][NextUpload]_vars

\* ------------------------------------------------------------- properties
\* a call of session s has returned and its result is held
Returned(s) == pc[s] = "idle" /\ result[s] # None

\* the entries of the attempt's log for one operation
LogOf(s, op) == SelectSeq(oplog[s], LAMBDA e : e.op = op)

\* the detector calls of the attempt at one threshold
Detects(s, thr) == SelectSeq(oplog[s], LAMBDA e : e.op = "detect" /\ e.arg[1] = thr)

Layer1Ran(s) == Detects(s, LAYER1_CONFIDENCE) # <<>>
Layer1Ret(s) == Detects(s, LAYER1_CONFIDENCE)[1].ret
Layer2Ran(s) == Detects(s, LAYER2_CONFIDENCE) # <<>>
Layer2Ret(s) == Detects(s, LAYER2_CONFIDENCE)[1].ret

\* the attempt reached save_snapshot; what the image write did, the path it
\* was given and what save_snapshot returned
SaveRan(s)     == LogOf(s, "save_snapshot") # <<>>
SaveOutcome(s) == LogOf(s, "save_snapshot")[1].arg[1]
SavePath(s)    == LogOf(s, "save_snapshot")[1].arg[2]
SaveRet(s)     == LogOf(s, "save_snapshot")[1].ret

ReadRan(s) == LogOf(s, "imread") # <<>>
ReadRet(s) == LogOf(s, "imread")[1].ret

DeleteRan(s) == LogOf(s, "delete_snapshot") # <<>>

\* Layer 1 passed and the snapshot was saved, Layer 2 has not decided yet
InProgress(s) == pc[s] \in {"read", "layer2"}

C2_Agreement(s) ==
    /\ Returned(s)
    /\ Layer1Ran(s) /\ Layer1Ret(s) # <<>>
    /\ ReadRan(s) /\ ReadRet(s) = "ok"
    /\ Layer2Ran(s) /\ Layer2Ret(s) # <<>>
    /\ get_highest_confidence_detection(Layer2Ret(s)).class_name
         = get_highest_confidence_detection(Layer1Ret(s)).class_name

C2_VerifiedOnAgreement ==
    \A s \in Sessions :
        C2_Agreement(s) =>
            LET r  == result[s]
                b1 == get_highest_confidence_detection(Layer1Ret(s))
                b2 == get_highest_confidence_detection(Layer2Ret(s))
            IN  /\ r.verified = TRUE
                /\ r.rejection_reason = None
                /\ r.layer1_detections = Layer1Ret(s)
                /\ r.layer2_detections = Layer2Ret(s)
                /\ r.snapshot_path = SavePath(s)
                /\ r.snapshot_path \in disk
                /\ r.best_detection.species = b1.class_name
                /\ r.best_detection.confidence_layer1 = b1.confidence
                /\ r.best_detection.bbox_layer1 = b1.bbox
                /\ r.best_detection.confidence_layer2 = b2.confidence
                /\ r.best_detection.bbox_layer2 = b2.bbox

\* the layers agree on the species with different confidences and boxes
C2_Witness ==
    \E s \in Sessions :
        /\ C2_Agreement(s)
        /\ result[s].best_detection.confidence_layer1
             # result[s].best_detection.confidence_layer2
        /\ result[s].best_detection.bbox_layer1 # result[s].best_detection.bbox_layer2

\* C3: when the best Layer-2 detection has another species than the best
\* Layer-1 detection, the call returns verified=false with a reason that names
\* both species, and the snapshot file is gone.
C3_Mismatch(s) ==
    /\ Returned(s)
    /\ Layer1Ran(s) /\ Layer1Ret(s) # <<>>
    /\ Layer2Ran(s) /\ Layer2Ret(s) # <<>>
    /\ get_highest_confidence_detection(Layer2Ret(s)).class_name
         # get_highest_confidence_detection(Layer1Ret(s)).class_name

C4_NoLayer1(s) ==
    /\ Returned(s)
    /\ Layer1Ran(s) /\ Layer1Ret(s) = <<>>

C4_RejectedOnNoLayer1 ==
    \A s \in Sessions :
        C4_NoLayer1(s) =>
            /\ result[s].verified = FALSE
            /\ result[s].rejection_reason = << "No Layer 1 detection" >>
            /\ result[s].layer1_detections = <<>>
            /\ result[s].layer2_detections = <<>>
            /\ result[s].snapshot_path = None
            /\ result[s].best_detection = None
            /\ ~SaveRan(s)
            /\ disk = entry_files[s]

\* Layer 1 found nothing while an earlier snapshot is in the directory
C4_Witness ==
    \E s \in Sessions : C4_NoLayer1(s) /\ disk # {}

\* C5: when the snapshot was saved and re-read and the Layer-2 detector call
\* returns nothing, the call deletes the snapshot and returns verified=false
\* with the no-layer-2 reason; the file is gone.
C5_NoLayer2(s) ==
    /\ Returned(s)
    /\ Layer1Ran(s) /\ Layer1Ret(s) # <<>>
    /\ ReadRan(s) /\ ReadRet(s) = "ok"
    /\ Layer2Ran(s) /\ Layer2Ret(s) = <<>>

C6_ReadFailed(s) ==
    /\ Returned(s)
    /\ SaveRan(s) /\ SaveRet(s) # None
    /\ ReadRan(s) /\ ReadRet(s) = "none"

C7_SaveFailureRejects ==
    \A s \in Sessions :
        (Returned(s) /\ SaveRan(s) /\ SaveOutcome(s) # "written") =>
            /\ SaveRet(s) = None
            /\ result[s].verified = FALSE
            /\ result[s].rejection_reason = << "Snapshot save failed" >>
            /\ ~Layer2Ran(s)
            /\ SavePath(s) \notin disk

\* C8: every returned result is either verified with no reason and a snapshot
\* path, or rejected with no snapshot path, no summary and one of the five
\* reasons; a rejection leaves no file of its attempt behind.
C8_IsRejectionKind(reason) ==
    \/ reason \in { << "No Layer 1 detection" >>, << "Snapshot save failed" >>,
                    << "Snapshot read failed" >>, << "No Layer 2 detection" >> }
    \/ /\ Len(reason) = 4
       /\ reason[1] = "Species mismatch: L1="
       /\ reason[3] = ", L2="

C9_HighestIsFirstMaximum ==
    "highest" \in pure_called =>
        IF pure_arg = <<>>
        THEN pure_best = None
        ELSE \E i \in DOMAIN pure_arg :
                /\ pure_best = pure_arg[i]
                /\ \A j \in DOMAIN pure_arg :
                       pure_arg[j].confidence <= pure_arg[i].confidence
                /\ \A j \in 1..(i - 1) :
                       pure_arg[j].confidence < pure_arg[i].confidence

\* two different detections share the maximum, after a lower one
C9_Witness ==
    /\ "highest" \in pure_called
    /\ Len(pure_arg) = 3
    /\ pure_arg[1].confidence < pure_arg[2].confidence
    /\ pure_arg[2].confidence = pure_arg[3].confidence
    /\ pure_arg[2] # pure_arg[3]
    /\ pure_best = pure_arg[2]

LastCall(op) == fs_last # None /\ fs_last.op = op

\* C12: after a start() that returns FALSE the source is not running, and a
\* read_frame() on a source that is not running returns (FALSE, None) and
\* changes nothing, so this lasts until a start() returns TRUE.
C12_FailedStartNotRunning ==
    /\ (LastCall("start") /\ fs_last.ret = FALSE) =>
           /\ ~is_running(processor, handles)
           /\ \A got \in CameraFrames \cup {None} :
                  read_frame(processor, handles, clock + 1, got).ret = <<FALSE, None>>
    /\ (LastCall("read_frame") /\ ~is_running(fs_last.pre, fs_last.pre_handles)) =>
           /\ fs_last.ret = <<FALSE, None>>
           /\ processor = fs_last.pre
           /\ handles = fs_last.pre_handles

\* C13: after stop(), from any state, the handle the source held is released,
\* the source holds none and is not running; a stop() right after a stop()
\* changes nothing.
C13_StopIdempotent ==
    LastCall("stop") =>
        /\ processor.running = FALSE
        /\ processor.cap = None
        /\ ~is_running(processor, handles)
        /\ fs_last.pre.cap # None =>
               /\ handles[fs_last.pre.cap[1]].released
               /\ ~handles[fs_last.pre.cap[1]].opened
        /\ fs_last.prev = "stop" =>
               /\ processor = fs_last.pre
               /\ handles = fs_last.pre_handles

\* a second stop() on a source that had been started and read from
C13_Witness ==
    /\ LastCall("stop")
    /\ fs_last.prev = "stop"
    /\ processor.frame_count > 0
    /\ \E h \in DOMAIN handles : handles[h].released

\* C14: a read_frame() on a running source whose capture read fails returns
\* (FALSE, None) and leaves the source as it was: still running, the handle
\* not released, the frame counter and the frame rate untouched.
C14_FailedReadKeepsState ==
    (LastCall("read_frame") /\ fs_last.arg = None
        /\ is_running(fs_last.pre, fs_last.pre_handles)) =>
        /\ fs_last.ret = <<FALSE, None>>
        /\ processor = fs_last.pre
        /\ handles = fs_last.pre_handles
        /\ is_running(processor, handles)
        /\ get_fps(processor) = get_fps(fs_last.pre)

\* a failed read on a running source that has read frames before
C14_Witness ==
    /\ LastCall("read_frame")
    /\ fs_last.arg = None
    /\ is_running(fs_last.pre, fs_last.pre_handles)
    /\ processor.frame_count > 0

\* C15: a successful read_frame() recomputes the frame rate exactly when it is
\* the 10th frame read since the sample time was last set, and the value is
\* 10 divided by the seconds elapsed since that sample time.
C15_FpsEveryTenFrames ==
    (LastCall("read_frame") /\ fs_last.ret[1] = TRUE) =>
        /\ fs_last.sampled <=> fs_last.since + 1 = 10
        /\ fs_last.sampled =>
               get_fps(processor) = FpsOf(processor.last_time, fs_last.pre.last_time)
        /\ ~fs_last.sampled => get_fps(processor) = get_fps(fs_last.pre)

\* C16: process_frame returns a value for every input; with detection
\* disabled or no model it returns the frame unmodified and no detections
\* without calling the detector; when the inference or the drawing raises it
\* returns the frame unmodified and no detections.
C16_ProcessFrameNeverRaises ==
    LastCall("process_frame") =>
        LET a == fs_last.arg
        IN  /\ fs_last.ret[1].src = a.frame.src
            /\ fs_last.ret[1].boxes = a.frame.boxes
            /\ (~a.enable_detection \/ fs_last.pre.model = None) =>
                   /\ fs_last.ret = <<a.frame, <<>>>>
                   /\ ~fs_last.called
            /\ (a.raises \/ a.draw_raises) => fs_last.ret = <<a.frame, <<>>>>

\* the drawing fails on a frame in which the loaded model detected an animal
C16_Witness ==
    /\ LastCall("process_frame")
    /\ fs_last.arg.enable_detection
    /\ fs_last.pre.model # None
    /\ fs_last.arg.draw_raises /\ ~fs_last.arg.raises
    /\ fs_last.arg.frame.boxes = <<StrongBox>>
    /\ fs_last.called
    /\ fs_last.ret = <<fs_last.arg.frame, <<>>>>

\* C17: whatever the interleaving of the threads that call load_model(), its
\* body runs at most once, and every call returns the one cached value.
C17_LoadedAtMostOnce ==
    /\ n_loads <= 1
    /\ \A s \in Loaders :
           (lm_ret[s] # <<>> /\ lm_pc[s] = "idle") => lm_ret[s] = model_cache

\* every thread's first lookup missed, and all their calls have returned
C17_Witness ==
    /\ lm_missed = Loaders
    /\ \A s \in Loaders : lm_pc[s] = "idle" /\ lm_ret[s] # <<>>
    /\ n_loads = 1

\* C18: any two alert e-mails dispatched for the same species and user are
\* at least ALERT_COOLDOWN_SECONDS apart.
C18_AlertsCooldownApart ==
    \A i \in DOMAIN alert_log : \A j \in DOMAIN alert_log :
        (i < j /\ alert_log[i].species = alert_log[j].species) =>
            alert_log[j].at - alert_log[i].at >= ALERT_COOLDOWN_SECONDS

\* the page is in an iteration of the loop, after the frame was read
InIteration == loop_pc \in {"verify", "verifying", "display"}

\* this iteration made a verification attempt
AttemptedNow ==
    attempts # <<>> /\ attempts[Len(attempts)].frame = processor.frame_count

\* this iteration's detections would trigger a snapshot
TriggeredNow ==
    InIteration /\ routed /\ shown[2] # <<>> /\ should_trigger_snapshot(shown[2])

\* C19: on a URL source any two verification attempts are at least
\* SNAPSHOT_COOLDOWN seconds apart, whatever the first one returned; on a
\* local device every triggering frame gets its attempt.
C19_VerificationCooldown ==
    /\ ~IsInt(processor.camera_index) =>
           \A i \in DOMAIN attempts : \A j \in DOMAIN attempts :
               i < j => attempts[j].at - attempts[i].at >= SNAPSHOT_COOLDOWN
    /\ (IsInt(processor.camera_index) /\ TriggeredNow) => AttemptedNow

\* on a URL source a triggering frame gets no attempt because a rejected
\* attempt was made less than the cooldown ago
C19_Witness ==
    /\ ~IsInt(processor.camera_index)
    /\ TriggeredNow
    /\ ~AttemptedNow
    /\ Len(attempts) = 1
    /\ attempts[1].outcome = "rejected"
    /\ clock - attempts[1].at < SNAPSHOT_COOLDOWN

\* C20: a frame goes through process_frame exactly when detection is enabled
\* and its number in this run of the loop is a multiple of
\* PROCESS_EVERY_N_FRAMES; every other frame is shown as an unmodified copy
\* with no detections and gets no verification attempt.
C20_EveryNthFrame ==
    /\ InIteration =>
           /\ routed <=> (ui_enable_detection
                            /\ frame_skip_counter % PROCESS_EVERY_N_FRAMES = 0)
           /\ ~routed =>
                  /\ shown = <<loop_frame, <<>>>>
                  /\ loop_pc = "display"
                  /\ ~AttemptedNow
    /\ \A i \in DOMAIN attempts :
           /\ attempts[i].enabled
           /\ attempts[i].counter % PROCESS_EVERY_N_FRAMES = 0

\* the third frame of a run shows an animal at high confidence and is not
\* processed, after the second frame led to an attempt
C20_Witness ==
    /\ loop_pc = "display"
    /\ ui_enable_detection
    /\ frame_skip_counter = 3
    /\ ~routed
    /\ loop_frame.boxes = <<StrongBox>>
    /\ shown = <<loop_frame, <<>>>>
    /\ Len(attempts) = 1
    /\ attempts[1].counter = 2

\* C21: an inference that raises is not reported as an empty detection list,
\* and the call it happens in does not end as "No Layer 1 detection" or
\* "No Layer 2 detection".
C21_DetectionErrorPropagates ==
    \A s \in Callers :
        \A i \in DOMAIN oplog[s] :
            (oplog[s][i].op = "detect" /\ oplog[s][i].arg[3]) =>
                /\ oplog[s][i].ret # <<>>
                /\ Returned(s) =>
                       result[s].rejection_reason \notin {NoLayer1Reason, NoLayer2Reason}

\* the fixed closed species set
SpeciesSet == { CLASS_NAMES[c] : c \in DOMAIN CLASS_NAMES }

\* C22: every Detection detect_objects returns has a class_name of the fixed
\* closed species set, whatever class id the model reported.
C22_ClassNamesClosed ==
    det_ret # None =>
        \A i \in DOMAIN det_ret.ret : det_ret.ret[i].class_name \in SpeciesSet

\* the steps of the attempt in call order, the final delete left out
StepsOf(s) == SelectSeq(oplog[s], LAMBDA e : e.op # "delete_snapshot")

StepOrder == << "detect", "save_snapshot", "imread", "detect" >>

\* C23: an attempt runs Layer-1 detect, snapshot save, re-read, Layer-2
\* detect in that order; each step runs only when the one before succeeded,
\* Layer 2 is given the image re-read from storage, and the detector is
\* called at most twice, first at the Layer-1 and then at the Layer-2 threshold.
C23_StepsInOrder ==
    \A s \in Callers :
        LET steps == StepsOf(s)
            n     == Len(steps)
        IN  /\ n <= Len(StepOrder)
            /\ \A i \in 1..n : steps[i].op = StepOrder[i]
            /\ \A i \in DOMAIN oplog[s] :
                   oplog[s][i].op = "delete_snapshot" => i > n
            /\ n >= 1 => /\ steps[1].arg[1] = LAYER1_CONFIDENCE
                         /\ steps[1].arg[2] = "memory"
            /\ n >= 2 => steps[1].ret # <<>>
            /\ n >= 3 => steps[2].ret # None
            /\ n >= 4 => /\ steps[2].arg[1] = "written"
                         /\ steps[3].ret = "ok"
                         /\ steps[4].arg[1] = LAYER2_CONFIDENCE
                         /\ steps[4].arg[2] = "disk"

\* an attempt that went through all four steps has returned
C23_Witness ==
    \E s \in Callers :
        /\ Returned(s)
        /\ Len(StepsOf(s)) = Len(StepOrder)
        /\ StepsOf(s)[4].ret # <<>>

\* C24: the snapshot file of a verified result is owned by that result
\* alone: while the result is held, no other attempt, of the same or of
\* another session, deletes the file, even when both attempts built the same
\* file name.
C24_RetainedSnapshotOwned ==
    \A s \in Sessions :
        (Returned(s) /\ result[s].verified) => result[s].snapshot_path \in disk

\* C25: the live loop makes a verification attempt only for a frame that
\* went through detection and whose detections pass should_trigger_snapshot;
\* the attempt is given the frame as read, not the annotated one, and a frame
\* read gets at most one attempt.
C25_AttemptOnTriggeringRawFrame ==
    /\ loop_pc \in {"verify", "verifying"} =>
           /\ TriggeredNow
           /\ AttemptedNow
    /\ pc[1] # "idle" =>
           /\ loop_pc = "verifying"
           /\ image[1] = loop_frame
           /\ image[1].drawn = <<>>
           /\ shown[1].drawn # <<>>
    /\ \A i \in DOMAIN attempts : \A j \in DOMAIN attempts :
           i < j => attempts[i].frame < attempts[j].frame
    /\ \A i \in DOMAIN attempts : attempts[i].frame <= processor.frame_count

\* the second attempt of a run is inside verify_detection_2layer, on the
\* frame as read, while the page holds the annotated frame
C25_Witness ==
    /\ loop_pc = "verifying"
    /\ pc[1] = "save"
    /\ Len(attempts) = 2
    /\ image[1] = loop_frame
    /\ shown[1] # loop_frame

C28_RecordsForVerifiedSpecies ==
    [][ (result[1] # None /\ result'[1] = None) =>
          \A i \in DOMAIN detections_db' :
              i > Len(detections_db) =>
                  /\ detections_db'[i].species = result[1].best_detection.species
                  /\ \E k \in DOMAIN result[1].layer1_detections :
                        /\ result[1].layer1_detections[k].class_name =
                               detections_db'[i].species
                        /\ result[1].layer1_detections[k].confidence =
                               detections_db'[i].confidence_layer1
      ]_vars

\* the records with alert_sent = true, in the order they were written; the
\* k-th of them belongs to the k-th alert the page started
AlertedRecords == SelectSeq(detections_db, LAMBDA d : d.alert_sent)

\* C29: a detection record has alert_sent = true only if its alert e-mail
\* was delivered: when the send started for it has failed, the record does
\* not say the alert was sent.
C29_AlertSentMeansDelivered ==
    \A k \in DOMAIN AlertedRecords :
        /\ k \in DOMAIN alert_log
        /\ alert_log[k].species = AlertedRecords[k].species
        /\ alert_log[k].sent # "failed"

\* C30: after any sequence of start, read_frame and stop calls that ends with
\* stop(), the frame source has released every capture handle its start()
\* calls created.
C30_HandlesReleasedAfterStop ==
    LastCall("stop") =>
        \A h \in DOMAIN handles : handles[h].released

====
